---------------------------- MODULE Spec2Model ----------------------------
(***************************************************************************)
(* Disposable-mail relay (src/src/index.js): the Mailbox and Message       *)
(* collections, the inbound-email webhook, the two read routes and the     *)
(* socket.io rooms that carry the newMessage event.                        *)
(*                                                                         *)
(* Strings are sequences of one-character strings.  Time is the value of   *)
(* Date.now() in milliseconds.  An ObjectId is a pair <<collection, n>>.    *)
(***************************************************************************)
EXTENDS Integers, Sequences, FiniteSets, TLC

VARIABLES
  now,        \* Date.now(), ms
  mailboxes,  \* the Mailbox collection: a set of documents
  messages,   \* the Message collection: a set of documents
  nextMailbox,\* ObjectIds handed out to Mailbox documents so far
  nextMessage,\* ObjectIds handed out to Message documents so far
  sockets,    \* socket id -> "new" | "connected" | "closed"
  rooms,      \* socket id -> the set of rooms the socket is in
  received,   \* socket id -> the newMessage events the client got
  wh,         \* the inbound-webhook request in flight: its locals and place
  resp        \* the HTTP response last sent

vars == <<now, mailboxes, messages, nextMailbox, nextMessage, sockets, rooms,
          received, wh, resp>>

-----------------------------------------------------------------------------
(* Bounds of the model *)

MaxMailboxes == 2
MaxMessages == 2
MaxClockSteps == 2
MaxIngested == 1

-----------------------------------------------------------------------------
(* Configuration and schema constants *)

\* process.env.MAILBOX_TTL_MINUTES || 60
MAILBOX_TTL_MINUTES == 60

\* generateRandomLocalPart(length = 10)
LocalPartLength == 10

\* ttlMinutes * 60 * 1000
TtlMs == MAILBOX_TTL_MINUTES * 60 * 1000

\* const chars = "abcdefghijklmnopqrstuvwxyz0123456789"
chars ==
  <<"a","b","c","d","e","f","g","h","i","j","k","l","m","n","o","p","q","r",
    "s","t","u","v","w","x","y","z","0","1","2","3","4","5","6","7","8","9">>

\* process.env.MAIL_DOMAIN || "example.com"
domain == <<"e","x","a","m","p","l","e",".","c","o","m">>

\* from: fromEmail || "unknown@unknown"
UnknownSender ==
  <<"u","n","k","n","o","w","n","@","u","n","k","n","o","w","n">>

-----------------------------------------------------------------------------
(* Helpers *)

\* What the calls of Math.random() in one run of generateRandomLocalPart come
\* to: the index Math.floor(Math.random() * chars.length) of each round.
RandomDraws ==
  { [i \in 1..LocalPartLength |-> 0],
    [i \in 1..LocalPartLength |-> i - 1] }

\* for (let i = 0; i < length; i++) local += chars[...]
generateRandomLocalPart(draw) ==
  [i \in 1..LocalPartLength |-> chars[draw[i] + 1]]

\* `${localPart}@${domain}`
Address(draw) == generateRandomLocalPart(draw) \o <<"@">> \o domain

\* White space String.prototype.trim removes, and the line terminators that
\* "." of a regular expression does not match.
WhiteSpace == {" ", "\t", "\n", "\r"}
LineTerminators == {"\n", "\r"}

RECURSIVE TrimStart(_)
TrimStart(s) ==
  IF s # <<>> /\ Head(s) \in WhiteSpace THEN TrimStart(Tail(s)) ELSE s

RECURSIVE TrimEnd(_)
TrimEnd(s) ==
  IF s # <<>> /\ s[Len(s)] \in WhiteSpace
    THEN TrimEnd(SubSeq(s, 1, Len(s) - 1))
    ELSE s

Trim(s) == TrimEnd(TrimStart(s))

\* str.match(/<(.+?)>/) tried at the "<" at position i: the position of the
\* nearest ">" that has at least one character, and no line terminator,
\* between it and the "<"; 0 when there is none.
CloseAt(str, i) ==
  LET stops == { k \in (i + 1)..Len(str) : str[k] \in LineTerminators }
      closes == { j \in (i + 2)..Len(str) :
                    str[j] = ">" /\ \A k \in stops : j < k }
  IN IF closes = {} THEN 0
     ELSE CHOOSE j \in closes : \A k \in closes : j <= k

\* The "<" positions at which the expression matches; the match is the
\* leftmost.
MatchStarts(str) ==
  { i \in 1..Len(str) : str[i] = "<" /\ CloseAt(str, i) # 0 }

\* match[1]
AngleMatch(str) ==
  LET starts == MatchStarts(str)
      i == CHOOSE a \in starts : \A b \in starts : a <= b
  IN SubSeq(str, i + 1, CloseAt(str, i) - 1)

\* extractEmail without the trim (a faulty variant).
extractEmail_NoTrim(value) ==
  IF value = <<>> THEN <<>>
  ELSE IF MatchStarts(value) # {} THEN AngleMatch(value) ELSE value

\* function extractEmail(value)
extractEmail(value) ==
  IF value = <<>> THEN <<>>
  ELSE LET str == Trim(value)
       IN IF MatchStarts(str) # {} THEN AngleMatch(str) ELSE str

\* The alias chain read from its end: the last non-empty alias wins (a faulty variant).
RECURSIVE LastTruthy(_, _)
LastTruthy(payload, aliases) ==
  IF aliases = <<>> THEN <<>>
  ELSE LET last == aliases[Len(aliases)]
       IN IF last \in DOMAIN payload /\ payload[last] # <<>>
            THEN payload[last]
            ELSE LastTruthy(payload, SubSeq(aliases, 1, Len(aliases) - 1))

\* a || b || ... || "" over the fields of the payload: the first alias that is
\* present with a non-empty value, "" when there is none.
RECURSIVE FirstTruthy(_, _)
FirstTruthy(payload, aliases) ==
  IF aliases = <<>> THEN <<>>
  ELSE IF Head(aliases) \in DOMAIN payload /\ payload[Head(aliases)] # <<>>
    THEN payload[Head(aliases)]
    ELSE FirstTruthy(payload, Tail(aliases))

ToAliases == <<"to_email", "to", "recipient", "toAddress">>
FromAliases == <<"from_email", "from", "sender", "fromAddress">>
SubjectAliases == <<"subject", "title", "mail_subject">>
TextAliases == <<"text_body", "text", "body_text", "body">>
HtmlAliases == <<"html_body", "html", "body_html">>

MailboxId(n) == <<"Mailbox", n>>
MessageId(n) == <<"Message", n>>

\* `mailbox:${mailboxId}`
Room(mailboxId) == <<"mailbox:", mailboxId>>

SocketIds == {1, 2}

ClockSteps(t) == (t \div TtlMs) + (t % TtlMs)

NoRequest == [pc |-> "idle"]
NoResponse == [route |-> "none"]

-----------------------------------------------------------------------------
(* Initial state: the server has connected to an empty database *)

Init ==
  /\ now = 0
  /\ mailboxes = {}
  /\ messages = {}
  /\ nextMailbox = 0
  /\ nextMessage = 0
  /\ sockets = [s \in SocketIds |-> "new"]
  /\ rooms = [s \in SocketIds |-> {}]
  /\ received = [s \in SocketIds |-> {}]
  /\ wh = NoRequest
  /\ resp = NoResponse

-----------------------------------------------------------------------------
(* The clock and the datastore's own steps *)

\* Time passes: the clock advances by d.
Tick(d) ==
  /\ ClockSteps(now + d) <= MaxClockSteps
  /\ now' = now + d
  /\ UNCHANGED <<mailboxes, messages, nextMailbox, nextMessage, sockets,
                 rooms, received, wh, resp>>

\* mailboxSchema.index({ expiresAt: 1 }, { expireAfterSeconds: 0 }): the
\* datastore's background task removes a document whose expiresAt has been
\* reached, at some moment after that.
ExpireMailbox ==
  /\ \E m \in mailboxes :
       /\ m.expiresAt <= now
       /\ mailboxes' = mailboxes \ {m}
  /\ UNCHANGED <<now, messages, nextMailbox, nextMessage, sockets, rooms,
                 received, wh, resp>>

-----------------------------------------------------------------------------
(* POST /api/mailbox *)

\* new Mailbox({address, expiresAt}) with the schema's defaults; createdAt is
\* Date.now() at the moment the document is built.
NewMailbox(n, address, expiresAt, createdAt) ==
  [id |-> MailboxId(n), address |-> address, createdAt |-> createdAt,
   expiresAt |-> expiresAt, isActive |-> TRUE]

\* The handler reads the clock (line 90), computes expiresAt, and builds the
\* document, whose createdAt default reads the clock again: `skew` is what the
\* clock advanced by in between.  The insert fails when the store throws or
\* the unique index on address is violated.
CreateMailbox(draw, skew, storeFails) ==
  LET address == Address(draw)
      expiresAt == now + TtlMs
      doc == NewMailbox(nextMailbox + 1, address, expiresAt, now + skew)
      duplicate == \E m \in mailboxes : m.address = address
  IN /\ nextMailbox < MaxMailboxes
     /\ ClockSteps(now) + skew <= MaxClockSteps
     /\ now' = now + skew
     /\ IF storeFails \/ duplicate
          THEN /\ resp' = [route |-> "createMailbox", status |-> 500,
                           error |-> "Failed to create mailbox"]
               /\ UNCHANGED <<mailboxes, nextMailbox>>
          ELSE /\ mailboxes' = mailboxes \cup {doc}
               /\ nextMailbox' = nextMailbox + 1
               /\ resp' = [route |-> "createMailbox", status |-> 200,
                           id |-> doc.id, address |-> doc.address,
                           expiresAt |-> doc.expiresAt]
     /\ UNCHANGED <<messages, nextMessage, sockets, rooms, received, wh>>

-----------------------------------------------------------------------------
(* POST /webhooks/inbound-email *)

rawTo(payload) == FirstTruthy(payload, ToAliases)
rawFrom(payload) == FirstTruthy(payload, FromAliases)
subjectOf(payload) == FirstTruthy(payload, SubjectAliases)
textOf(payload) == FirstTruthy(payload, TextAliases)
htmlOf(payload) == FirstTruthy(payload, HtmlAliases)

\* The call is answered.  Beside its locals the request keeps, as history,
\* `before` (the Message collection as the call began), `store` (the Mailbox
\* collection as findOne read it), `subscribers` (the sockets in the mailbox's
\* room as the Message was inserted), `emitted` (what the call handed to
\* io.to(room).emit) and `threw` (whether a step of the call threw).
Respond(req, status, body) ==
  [req EXCEPT !.pc = "done", !.status = status, !.body = body]

\* catch (err) { return res.status(500).json({ error: "Webhook error" }) }
Catch(req) ==
  [req EXCEPT !.pc = "done", !.status = 500, !.body = "Webhook error",
              !.threw = TRUE]

\* Lines 163-208: the body arrives, the aliases are probed, the addresses are
\* normalised; an empty destination is answered at once.
WebhookReceive(payload) ==
  LET toEmail == extractEmail(rawTo(payload))
      fromEmail == extractEmail(rawFrom(payload))
      req == [pc |-> "findOne", payload |-> payload,
              toEmail |-> toEmail, fromEmail |-> fromEmail,
              subject |-> subjectOf(payload), text |-> textOf(payload),
              html |-> htmlOf(payload),
              queried |-> FALSE, store |-> {}, mailbox |-> {}, doc |-> {},
              subscribers |-> {}, before |-> messages, emitted |-> {},
              status |-> 0, body |-> "", threw |-> FALSE]
  IN /\ wh.pc \in {"idle", "done"}
     /\ nextMessage < MaxMessages
     /\ wh' = IF toEmail = <<>>
                THEN Respond(req, 200, "ignored_no_to_email")
                ELSE req
     /\ UNCHANGED <<now, mailboxes, messages, nextMailbox, nextMessage,
                    sockets, rooms, received, resp>>

\* findOne without the address in its filter (a faulty variant).
FindOne_AnyActive(store, address) == { m \in store : m.isActive }

\* Mailbox.findOne({ address: toEmail, isActive: true })
FindOne(store, address) ==
  { m \in store : m.address = address /\ m.isActive }

\* new Message({...}) of Message.create: the schema's defaults, receivedAt
\* being Date.now() as the document is built.
NewMessage(n, mailboxId, from, to, subject, text, html, receivedAt) ==
  [id |-> MessageId(n), mailboxId |-> mailboxId, from |-> from, to |-> to,
   subject |-> subject, text |-> text, html |-> html,
   receivedAt |-> receivedAt, isRead |-> FALSE]

\* from: fromEmail || "unknown@unknown"
SenderOrUnknown(fromEmail) ==
  IF fromEmail = <<>> THEN UnknownSender ELSE fromEmail

\* Lines 210-227: the store answers the query (or throws).  Without a mailbox
\* the call is answered; with one the Message document is built and its
\* insert is sent to the store.
WebhookFindOne(storeFails) ==
  /\ wh.pc = "findOne"
  /\ IF storeFails
       THEN /\ wh' = Catch([wh EXCEPT !.queried = TRUE])
            /\ UNCHANGED nextMessage
       ELSE LET found == FindOne(mailboxes, wh.toEmail)
                seen == [wh EXCEPT !.queried = TRUE, !.store = mailboxes]
            IN IF found = {}
                 THEN /\ wh' = Respond(seen, 200, "ignored_no_mailbox")
                      /\ UNCHANGED nextMessage
                 ELSE \E mailbox \in found :
                        /\ wh' = [seen EXCEPT
                                    !.pc = "insert",
                                    !.mailbox = {mailbox},
                                    !.doc = {NewMessage(nextMessage + 1,
                                               mailbox.id,
                                               SenderOrUnknown(wh.fromEmail),
                                               wh.toEmail, wh.subject,
                                               wh.text, wh.html, now)}]
                        /\ nextMessage' = nextMessage + 1
  /\ UNCHANGED <<now, mailboxes, messages, nextMailbox, sockets, rooms,
                 received, resp>>

\* The schema's validators: mailboxId, from and to are required.
ValidMessage(doc) == doc.from # <<>> /\ doc.to # <<>>

\* An insert that lands although Message.create throws (a faulty variant).
InsertMessage_Always(store, doc, fails) == store \cup {doc}

\* What the collection holds after the insert of Message.create.
InsertMessage(store, doc, fails) ==
  IF fails THEN store ELSE store \cup {doc}

\* The sockets in a room.
Members(room) == { s \in SocketIds : room \in rooms[s] }

\* Line 220, the store's side: the document is validated and inserted, or
\* Message.create throws and the catch block answers.
WebhookInsert(storeFails) ==
  /\ wh.pc = "insert"
  /\ \E doc \in wh.doc, mailbox \in wh.mailbox :
       LET fails == storeFails \/ ~ValidMessage(doc)
       IN /\ messages' = InsertMessage(messages, doc, fails)
          /\ IF fails
               THEN wh' = Catch(wh)
               ELSE wh' = [wh EXCEPT !.pc = "emit",
                                     !.subscribers = Members(Room(mailbox.id))]
  /\ UNCHANGED <<now, mailboxes, nextMailbox, nextMessage, sockets, rooms,
                 received, resp>>

\* The payload of the newMessage event (html is left out).
NewMessageEvent(message) ==
  [id |-> message.id, from |-> message.from, to |-> message.to,
   subject |-> message.subject, text |-> message.text,
   receivedAt |-> message.receivedAt]

\* io.emit("newMessage", event): every socket gets the event (a faulty variant).
Emit_ToAll(room, event) ==
  [s \in SocketIds |->
     IF sockets[s] = "connected" THEN received[s] \cup {event}
     ELSE received[s]]

\* io.to(room).emit("newMessage", event): every socket in the room gets it.
Emit(room, event) ==
  [s \in SocketIds |->
     IF s \in Members(room) THEN received[s] \cup {event} ELSE received[s]]

\* Lines 229-239: after the insert the event is emitted and the call answered.
WebhookEmit ==
  /\ wh.pc = "emit"
  /\ \E doc \in wh.doc, mailbox \in wh.mailbox :
       /\ received' = Emit(Room(mailbox.id), NewMessageEvent(doc))
       /\ wh' = Respond([wh EXCEPT !.emitted =
                           {[room |-> Room(mailbox.id),
                             event |-> NewMessageEvent(doc)]}],
                        200, "ok")
  /\ UNCHANGED <<now, mailboxes, messages, nextMailbox, nextMessage, sockets,
                 rooms, resp>>

-----------------------------------------------------------------------------
(* socket.io *)

\* A socket is in the room named by its own id from the start.
OwnRoom(s) == <<"socket:", <<"Socket", s>>>>

\* io.on("connection", ...)
Connect(s) ==
  /\ sockets[s] = "new"
  /\ sockets' = [sockets EXCEPT ![s] = "connected"]
  /\ rooms' = [rooms EXCEPT ![s] = {OwnRoom(s)}]
  /\ UNCHANGED <<now, mailboxes, messages, nextMailbox, nextMessage,
                 received, wh, resp>>

\* socket.on("joinMailbox", mailboxId => socket.join(`mailbox:${mailboxId}`))
JoinMailbox(s, mailboxId) ==
  /\ sockets[s] = "connected"
  /\ rooms' = [rooms EXCEPT ![s] = @ \cup {Room(mailboxId)}]
  /\ UNCHANGED <<now, mailboxes, messages, nextMailbox, nextMessage,
                 sockets, received, wh, resp>>

\* A closed socket that stays in its rooms (a faulty variant).
LeaveAll_Keep(joined) == joined

\* The rooms of a socket once it has closed: socket.io takes a closing socket
\* out of all its rooms before the "disconnect" handler (which only logs) runs.
LeaveAll(joined) == {}

\* socket.on("disconnect", ...)
Disconnect(s) ==
  /\ sockets[s] = "connected"
  /\ sockets' = [sockets EXCEPT ![s] = "closed"]
  /\ rooms' = [rooms EXCEPT ![s] = LeaveAll(@)]
  /\ UNCHANGED <<now, mailboxes, messages, nextMailbox, nextMessage,
                 received, wh, resp>>

-----------------------------------------------------------------------------
(* GET /api/mailbox/:id/messages and GET /api/messages/:id *)

\* The :id of a request: a string that casts to an ObjectId, or one that
\* does not (the query then throws a CastError).
MalformedId == [wellFormed |-> FALSE, oid |-> <<"abc", 0>>]
WellFormedId(oid) == [wellFormed |-> TRUE, oid |-> oid]

\* .sort({ receivedAt: 1 }): oldest first (a faulty variant).
SortByReceivedAtAsc(docs) ==
  { q \in [1..Cardinality(docs) -> docs] :
      /\ \A i, j \in DOMAIN q : i # j => q[i] # q[j]
      /\ \A i, j \in DOMAIN q : i < j => q[i].receivedAt <= q[j].receivedAt }

\* .sort({ receivedAt: -1 }): the orders of a set of documents that a sort by
\* receivedAt, newest first, can give (ties in any order).
SortByReceivedAtDesc(docs) ==
  { q \in [1..Cardinality(docs) -> docs] :
      /\ \A i, j \in DOMAIN q : i # j => q[i] # q[j]
      /\ \A i, j \in DOMAIN q : i < j => q[i].receivedAt >= q[j].receivedAt }

\* messages.map((m) => ({ id, from, to, subject, text, html, receivedAt, isRead }))
Formatted(m) ==
  [id |-> m.id, from |-> m.from, to |-> m.to, subject |-> m.subject,
   text |-> m.text, html |-> m.html, receivedAt |-> m.receivedAt,
   isRead |-> m.isRead]

ListMessages(id, storeFails) ==
  /\ IF storeFails \/ ~id.wellFormed
       THEN resp' = [route |-> "listMessages", id |-> id, store |-> messages,
                     storeFailed |-> storeFails, status |-> 500,
                     body |-> <<>>, error |-> "Failed to fetch messages"]
       ELSE \E q \in SortByReceivedAtDesc(
                       { m \in messages : m.mailboxId = id.oid }) :
              resp' = [route |-> "listMessages", id |-> id,
                       store |-> messages, storeFailed |-> FALSE,
                       status |-> 200,
                       body |-> [i \in DOMAIN q |-> Formatted(q[i])],
                       error |-> ""]
  /\ UNCHANGED <<now, mailboxes, messages, nextMailbox, nextMessage, sockets,
                 rooms, received, wh>>

\* Message.findById(id).lean()
FindById(store, oid) == { m \in store : m.id = oid }

GetMessage(id, storeFails) ==
  /\ IF storeFails \/ ~id.wellFormed
       THEN resp' = [route |-> "getMessage", id |-> id, store |-> messages,
                     storeFailed |-> storeFails, status |-> 500,
                     body |-> {}, error |-> "Failed to get message"]
       ELSE LET msg == FindById(messages, id.oid)
            IN IF msg = {}
                 THEN resp' = [route |-> "getMessage", id |-> id,
                               store |-> messages, storeFailed |-> FALSE,
                               status |-> 404, body |-> {},
                               error |-> "Message not found"]
                 ELSE resp' = [route |-> "getMessage", id |-> id,
                               store |-> messages, storeFailed |-> FALSE,
                               status |-> 200,
                               body |-> { [mailboxId |-> m.mailboxId]
                                            @@ Formatted(m) : m \in msg },
                               error |-> ""]
  /\ UNCHANGED <<now, mailboxes, messages, nextMailbox, nextMessage, sockets,
                 rooms, received, wh>>

-----------------------------------------------------------------------------
(* Inputs *)

AddressA == Address([i \in 1..LocalPartLength |-> 0])
AddressB == Address([i \in 1..LocalPartLength |-> i - 1])
Named(name, address) == name \o <<" ", "<">> \o address \o <<">">>

\* Payloads that name the destination only.
BasicPayloads ==
  { [n \in {"to_email"} |-> AddressA],
    [n \in {"to"} |-> Named(<<"N">>, AddressB)] }

\* The payloads over one field's aliases that tell the order of the aliases
\* apart: none present, one present, two present with different values, and
\* two present of which the earlier is empty.
AliasPayloads(aliases, x, y) ==
  LET n == Len(aliases)
  IN {<<>>}
     \cup { aliases[i] :> x : i \in 1..n }
     \cup { aliases[ij[1]] :> x @@ aliases[ij[2]] :> y :
              ij \in { p \in (1..n) \X (1..n) : p[1] < p[2] } }
     \cup { aliases[ij[1]] :> <<>> @@ aliases[ij[2]] :> y :
              ij \in { p \in (1..n) \X (1..n) : p[1] < p[2] } }

\* Destinations that exercise extractEmail: blank, padded, empty brackets,
\* two bracketed addresses, a line break inside the first brackets, padding
\* inside the brackets, an unknown address.
OddDestinations ==
  { <<" ">>,
    <<" ", "\t">> \o AddressA \o <<" ">>,
    <<"<", ">">>,
    <<"<", " ", ">">>,
    <<"<">> \o AddressA \o <<">", "<">> \o AddressB \o <<">">>,
    <<"<", "\n">> \o AddressB \o <<">", " ", "<">> \o AddressA \o <<">">>,
    <<"<", " ">> \o AddressA \o <<" ", ">">>,
    <<"z", "@", "z">> }

ToPayloads ==
  AliasPayloads(ToAliases, AddressA, Named(<<"N">>, AddressB))
    \cup { "to" :> d : d \in OddDestinations }

\* Senders that exercise extractEmail: blank, empty brackets.
OddSenders == { <<" ">>, <<"<", ">">> }

BodyPayloads ==
  { "to_email" :> AddressA @@ p :
      p \in AliasPayloads(FromAliases, <<"s">>, Named(<<"M">>, <<"t">>))
              \cup { "sender" :> d : d \in OddSenders }
              \cup AliasPayloads(SubjectAliases, <<"h", "i">>, <<"y">>)
              \cup AliasPayloads(TextAliases, <<"x">>, <<" ">>)
              \cup AliasPayloads(HtmlAliases, <<"<", "b", ">">>, <<"y">>) }

RichPayloads == ToPayloads \cup BodyPayloads

MailboxIds == { MailboxId(n) : n \in 1..MaxMailboxes }
MessageIds == { MessageId(n) : n \in 1..MaxMessages }

ListIds == { WellFormedId(o) : o \in MailboxIds } \cup {MalformedId}
GetIds == { WellFormedId(o) : o \in MessageIds \cup {MailboxId(1)} }
            \cup {MalformedId}

-----------------------------------------------------------------------------
(* The whole system *)

Next ==
  \/ \E d \in {1, TtlMs} : Tick(d)
  \/ ExpireMailbox
  \/ \E draw \in RandomDraws, skew \in {0, 1}, f \in BOOLEAN :
       CreateMailbox(draw, skew, f)
  \/ \E payload \in RichPayloads : WebhookReceive(payload)
  \/ \E f \in BOOLEAN : WebhookFindOne(f)
  \/ \E f \in BOOLEAN : WebhookInsert(f)
  \/ WebhookEmit
  \/ \E s \in SocketIds : Connect(s)
  \/ \E s \in SocketIds, id \in MailboxIds : JoinMailbox(s, id)
  \/ \E s \in SocketIds : Disconnect(s)
  \/ \E id \in ListIds, f \in BOOLEAN : ListMessages(id, f)
  \/ \E id \in GetIds, f \in BOOLEAN : GetMessage(id, f)

Spec == Init /\ [][Next]_vars

-----------------------------------------------------------------------------
(* The system seen through one interface at a time: the same actions, with    *)
(* the other interfaces idle and the inputs each one needs.  Every behaviour  *)
(* of one of these is a behaviour of Spec; the state space of Spec itself is  *)
(* the product of theirs.                                                      *)

\* Mailbox creation and expiry.
NextMailbox ==
  \/ \E d \in {1, TtlMs} : Tick(d)
  \/ ExpireMailbox
  \/ \E draw \in RandomDraws, skew \in {0, 1}, f \in BOOLEAN :
       CreateMailbox(draw, skew, f)
  \/ \E payload \in BasicPayloads : WebhookReceive(payload)
  \/ WebhookFindOne(FALSE)
  \/ WebhookInsert(FALSE)
  \/ WebhookEmit

SpecMailbox == Init /\ [][NextMailbox]_vars

\* Ingestion: mailboxes are created, webhook calls of every shape arrive, and
\* the store may fail them.
NextIngest ==
  \/ \E draw \in RandomDraws : CreateMailbox(draw, 0, FALSE)
  \/ \E payload \in RichPayloads :
       nextMessage < MaxIngested /\ WebhookReceive(payload)
  \/ \E f \in BOOLEAN : WebhookFindOne(f)
  \/ \E f \in BOOLEAN : WebhookInsert(f)
  \/ WebhookEmit

SpecIngest == Init /\ [][NextIngest]_vars

\* Real-time delivery: sockets connect, join and disconnect while mail for
\* two mailboxes is ingested.
NextRealtime ==
  \/ \E draw \in RandomDraws : CreateMailbox(draw, 0, FALSE)
  \/ \E payload \in BasicPayloads : WebhookReceive(payload)
  \/ WebhookFindOne(FALSE)
  \/ WebhookInsert(FALSE)
  \/ WebhookEmit
  \/ \E s \in SocketIds : Connect(s)
  \/ \E s \in SocketIds, id \in MailboxIds : JoinMailbox(s, id)
  \/ \E s \in SocketIds : Disconnect(s)

SpecRealtime == Init /\ [][NextRealtime]_vars

\* Listing: mail is ingested before and after one time-to-live passes,
\* mailboxes expire, the listing route is called.
NextRead ==
  \/ now < TtlMs /\ Tick(TtlMs)
  \/ ExpireMailbox
  \/ \E draw \in RandomDraws : CreateMailbox(draw, 0, FALSE)
  \/ \E payload \in BasicPayloads : WebhookReceive(payload)
  \/ WebhookFindOne(FALSE)
  \/ WebhookInsert(FALSE)
  \/ WebhookEmit
  \/ \E id \in ListIds, f \in BOOLEAN : ListMessages(id, f)

SpecRead == Init /\ [][NextRead]_vars

\* Fetching one message: mail is ingested, the single-message route is called.
NextGet ==
  \/ \E draw \in RandomDraws : CreateMailbox(draw, 0, FALSE)
  \/ \E payload \in BasicPayloads : WebhookReceive(payload)
  \/ WebhookFindOne(FALSE)
  \/ WebhookInsert(FALSE)
  \/ WebhookEmit
  \/ \E id \in GetIds, f \in BOOLEAN : GetMessage(id, f)

SpecGet == Init /\ [][NextGet]_vars

-----------------------------------------------------------------------------
(* Properties *)

\* A webhook call that has been answered.
Answered == wh.pc = "done"

\* What "first non-empty value among a field's aliases, in their order" says:
\* the value of the alias of least position that is present and not "".
FirstPresent(payload, aliases) ==
  LET present == { i \in 1..Len(aliases) :
                     aliases[i] \in DOMAIN payload
                       /\ payload[aliases[i]] # <<>> }
  IN IF present = {} THEN <<>>
     ELSE payload[aliases[CHOOSE i \in present : \A j \in present : i <= j]]

\* A string with nothing but white space in it (the empty string too).
AllBlank(v) == \A i \in 1..Len(v) : v[i] \in WhiteSpace

\* The active mailboxes with an address, among those findOne read.
ActiveWithAddress(store, address) ==
  { m \in store : m.isActive /\ m.address = address }

\* C1: a Message is stored only for a mailbox that, as the webhook ingested
\* it (the Message's receivedAt), was active and had expiresAt strictly later:
\* never for one that is expired though not yet removed by the datastore.
C1_StoredOnlyForLiveMailbox ==
  (wh.pc \in {"emit", "done"} /\ messages # wh.before)
    => \A mailbox \in wh.mailbox, doc \in wh.doc :
         mailbox.isActive /\ mailbox.expiresAt > doc.receivedAt

\* C6: every stored Mailbox has expiresAt - createdAt equal to the configured
\* time-to-live, whatever time passes between the handler's reading of the
\* clock and the createdAt default.
C6_ExpiresExactlyTtlAfterCreated ==
  \A m \in mailboxes : m.expiresAt - m.createdAt = TtlMs

\* C7: GET /api/messages/:id for an id that matches no stored Message, be it a
\* well-formed id or not, answers 404 "Message not found" (the store itself
\* not failing).
C7_AbsentIdIsNotFound ==
  (/\ resp.route = "getMessage"
   /\ ~resp.storeFailed
   /\ \A m \in resp.store : ~(resp.id.wellFormed /\ m.id = resp.id.oid))
    => resp.status = 404 /\ resp.error = "Message not found"

\* C3: a webhook call whose destination is not empty and for which findOne
\* read no active mailbox of that address is answered 200
\* "ignored_no_mailbox", stores no Message and emits no event.
C3_NoMailboxIgnored ==
  (/\ Answered
   /\ wh.toEmail # <<>>
   /\ wh.queried /\ ~wh.threw
   /\ ActiveWithAddress(wh.store, wh.toEmail) = {})
    => /\ wh.status = 200
       /\ wh.body = "ignored_no_mailbox"
       /\ messages = wh.before
       /\ wh.emitted = {}

C3_Witness ==
  /\ Answered
  /\ wh.body = "ignored_no_mailbox"
  /\ wh.toEmail = AddressB
  /\ \E m \in wh.store : m.address = AddressA

\* C4: a webhook call whose destination aliases are all missing or empty, or
\* whose destination is nothing but white space (so that its normalised form
\* is empty), is answered 200 "ignored_no_to_email" at once: the Mailbox
\* store is not queried, no Message is stored and no event is emitted.
C4_NoDestinationIgnored ==
  (/\ wh.pc # "idle"
   /\ \/ AllBlank(FirstPresent(wh.payload, ToAliases))
      \/ wh.toEmail = <<>>)
    => /\ Answered
       /\ wh.status = 200
       /\ wh.body = "ignored_no_to_email"
       /\ ~wh.queried
       /\ messages = wh.before
       /\ wh.emitted = {}

C4_Witness ==
  /\ Answered
  /\ wh.body = "ignored_no_to_email"
  /\ FirstPresent(wh.payload, ToAliases) = <<" ">>
  /\ mailboxes # {}

\* C5: a webhook call for which findOne read an active mailbox M of the
\* normalised destination address, and in which no store operation threw, is
\* answered 200 "ok" and has added exactly one Message, no other Message
\* changed: mailboxId = M.id, to = the normalised destination, subject, text
\* and html = the first non-empty alias of each or "", from = the normalised
\* sender or "unknown@unknown", isRead = false.
C5_OneMessageStored ==
  (/\ Answered
   /\ wh.queried /\ ~wh.threw
   /\ ActiveWithAddress(wh.store, wh.toEmail) # {})
    => /\ wh.status = 200
       /\ wh.body = "ok"
       /\ wh.toEmail = extractEmail(FirstPresent(wh.payload, ToAliases))
       /\ wh.before \subseteq messages
       /\ Cardinality(messages \ wh.before) = 1
       /\ \A msg \in messages \ wh.before :
            LET sender == extractEmail(FirstPresent(wh.payload, FromAliases))
            IN /\ \E M \in ActiveWithAddress(wh.store, wh.toEmail) :
                    msg.mailboxId = M.id
               /\ msg.to = wh.toEmail
               /\ msg.subject = FirstPresent(wh.payload, SubjectAliases)
               /\ msg.text = FirstPresent(wh.payload, TextAliases)
               /\ msg.html = FirstPresent(wh.payload, HtmlAliases)
               /\ msg.from = (IF sender = <<>> THEN UnknownSender ELSE sender)
               /\ msg.isRead = FALSE
               /\ \A other \in wh.before : other.id # msg.id

C5_Witness ==
  /\ Answered
  /\ wh.body = "ok"
  /\ {"title", "mail_subject"} \subseteq DOMAIN wh.payload
  /\ \E msg \in messages : msg.subject = wh.payload["title"]

\* C8: the webhook answers 500 exactly when a step of the call threw; the
\* two "ignored" outcomes and success are answered 200; and a call answered
\* 500 has stored no Message and emitted no event.
C8_FailureOnlyOnThrow ==
  Answered
    => /\ wh.status \in {200, 500}
       /\ wh.status = 500 <=> wh.threw
       /\ wh.status = 200
            <=> wh.body \in {"ignored_no_to_email", "ignored_no_mailbox", "ok"}
       /\ wh.status = 500 => messages = wh.before /\ wh.emitted = {}

C8_Witness ==
  /\ Answered
  /\ wh.status = 500
  /\ wh.doc # {}
  /\ messages = wh.before

\* C10: GET /api/mailbox/:id/messages answers with exactly the stored Messages
\* whose mailboxId is id, each once, formatted, newest first (the empty list
\* when there are none), whatever creations, ingestions and expiries came
\* before.
C10_ListIsExactAndNewestFirst ==
  (/\ resp.route = "listMessages"
   /\ resp.id.wellFormed
   /\ ~resp.storeFailed)
    => LET body == resp.body
           owned == { m \in resp.store : m.mailboxId = resp.id.oid }
       IN /\ resp.status = 200
          /\ Len(body) = Cardinality(owned)
          /\ { body[i] : i \in DOMAIN body } = { Formatted(m) : m \in owned }
          /\ \A i, j \in DOMAIN body :
               i < j => body[i].receivedAt >= body[j].receivedAt

C10_Witness ==
  /\ resp.route = "listMessages"
  /\ resp.status = 200
  /\ Len(resp.body) = 2
  /\ resp.body[1].receivedAt > resp.body[2].receivedAt
  /\ \A m \in mailboxes : m.id # resp.id.oid

\* C2: a socket that was in mailbox X's room when a Message for X was stored,
\* and is still connected when the call is answered, has received that
\* Message's newMessage event; and a socket receives a newMessage event only
\* for a mailbox whose room it has joined.
C2_Delivered ==
  (Answered /\ wh.body = "ok")
    => \A s \in wh.subscribers, doc \in wh.doc :
         sockets[s] = "connected" => \E e \in received[s] : e.id = doc.id

C2_OnlyJoined ==
  \A s \in SocketIds :
    \A e \in received'[s] \ received[s] :
      \E m \in messages : m.id = e.id /\ Room(m.mailboxId) \in rooms[s]

\* C2: both halves, in every state and at every step.
C2_SubscribersGetTheirMailboxOnly ==
  []C2_Delivered /\ [][C2_OnlyJoined]_vars

C2_Witness ==
  /\ Answered
  /\ wh.body = "ok"
  /\ \E s, t \in SocketIds, doc \in wh.doc :
       /\ s \in wh.subscribers
       /\ sockets[s] = "connected" /\ sockets[t] = "connected"
       /\ \E e \in received[s] : e.id = doc.id
       /\ \E id \in MailboxIds : id # doc.mailboxId /\ Room(id) \in rooms[t]
       /\ Room(doc.mailboxId) \notin rooms[t]
       /\ received[t] = {}

\* C9: a socket that has disconnected is in no room and receives no further
\* newMessage event, and its disconnecting leaves the rooms of every other
\* socket as they were.
C9_ClosedInNoRoom ==
  \A s \in SocketIds : sockets[s] = "closed" => rooms[s] = {}

C9_ClosedGetsNothing ==
  \A s \in SocketIds :
    /\ sockets[s] = "closed" => received'[s] = received[s]
    /\ (sockets[s] = "connected" /\ sockets'[s] = "closed")
         => \A t \in SocketIds \ {s} : rooms'[t] = rooms[t]

=============================================================================
